---- MODULE Spec2Model ----
(***************************************************************************)
(* The chat relay of src/src/api/main.py (POST /chat) and the interactive  *)
(* chat page of src/src/ui/app.py, as state machines.                      *)
(*                                                                         *)
(* The relay: FastAPI receives a JSON body, pydantic validates it against  *)
(* ChatRequests / Message, and the coroutine `chat` runs on the server's   *)
(* event loop.  `chat` is `async def` but calls the synchronous client     *)
(* (`Anthropic`, not `AsyncAnthropic`) without `await`, so the coroutine   *)
(* keeps the event loop from the call until it returns.                    *)
(***************************************************************************)
EXTENDS Integers, Sequences, FiniteSets, TLC

\* ---------------------------------------------------------------- bounds
NumReqs == 2
MaxMsgs == 2
MaxPrompts == 3

Reqs == 1..NumReqs

\* ------------------------------------------------------ program constants
MODEL == "claude-sonnet-4-20250514"
MAX_TOKENS == 1024

\* ------------------------------------------------------------ JSON input
\* A JSON value of a request body: a string, or null (not a string).
JStr(s) == [kind |-> "str", val |-> s]
JNull == [kind |-> "null", val |-> ""]

RawTurn(role, content) == [role |-> role, content |-> content]

RawTurns ==
    { RawTurn(JStr("user"), JStr("ping")),
      RawTurn(JStr("system"), JStr("pong")),
      RawTurn(JNull, JStr("ping")) }

SeqsUpTo(S, n) == UNION { [1..k -> S] : k \in 0..n }

\* The "messages" arrays a client may post.
Bodies == SeqsUpTo(RawTurns, MaxMsgs)

\* ------------------------------------------------- pydantic validation
\* class Message(BaseModel): role: str; content: str
ValidMessage(t) == t.role.kind = "str" /\ t.content.kind = "str"

ParseMessage(t) == [role |-> t.role.val, content |-> t.content.val]

ValidChatRequestsNonEmpty(b) ==
    Len(b) > 0 /\ \A i \in 1..Len(b) : ValidMessage(b[i])

\* class ChatRequests(BaseModel): messages: List[Message]
ValidChatRequests(b) == \A i \in 1..Len(b) : ValidMessage(b[i])

ParseChatRequests(b) ==
    [messages |-> [i \in 1..Len(b) |-> ParseMessage(b[i])]]

NoRequest == [messages |-> <<>>]

\* ------------------------------------------------------------ provider
TextBlock(t) == [type |-> "text", text |-> t]

\* A provider stub that echoes the content of its last input turn.
EchoReply(ms) == << TextBlock(ms[Len(ms)].content), TextBlock("Hi there!") >>

\* What a successful create() may hand back for a message list: no content
\* block, one block, or two blocks.
ProviderReplies(ms) ==
    { <<>>, << TextBlock("Hi there!") >> }
        \cup (IF Len(ms) = 0 THEN {} ELSE { EchoReply(ms) })

NoReply == [status |-> "none", content |-> <<>>]

\* ---------------------------------------------------------------- state
VARIABLES
    pc,        \* per request: idle, rejected, queued, calling, done, error
    body,      \* per request: the posted "messages" array (raw JSON)
    request,   \* per request: the validated ChatRequests object
    calls,     \* per request: the create() calls its invocation has issued
    reply,     \* per request: what the provider did with its call
    result,    \* per request: what the caller gets
    client,    \* the module-level Anthropic client
    session,   \* UI: st.session_state.messages
    uiPc,      \* UI: idle, calling
    uiSent,    \* UI: the message list of the latest create() call, if any
    uiError,   \* UI: the exception that ended the latest script run, if any
    nPrompts   \* UI: prompts submitted so far

apiVars == << pc, body, request, calls, reply, result, client >>
uiVars == << session, uiPc, uiSent, uiError, nPrompts >>
vars == << pc, body, request, calls, reply, result, client,
           session, uiPc, uiSent, uiError, nPrompts >>

NoResult == [outcome |-> "none", error |-> "", response |-> ""]
Ok(t) == [outcome |-> "ok", error |-> "", response |-> t]
Err(e) == [outcome |-> "error", error |-> e, response |-> ""]

\* client = Anthropic(api_key=os.getenv("ANTHROPIC_API_KEY"))
InitialClient == [api_key |-> "ANTHROPIC_API_KEY"]

Init ==
    /\ pc = [r \in Reqs |-> "idle"]
    /\ body = [r \in Reqs |-> <<>>]
    /\ request = [r \in Reqs |-> NoRequest]
    /\ calls = [r \in Reqs |-> <<>>]
    /\ reply = [r \in Reqs |-> NoReply]
    /\ result = [r \in Reqs |-> NoResult]
    /\ client = InitialClient
    /\ session = <<>>
    /\ uiPc = "idle"
    /\ uiSent = <<>>
    /\ uiError = ""
    /\ nPrompts = 0

\* ------------------------------------------------------- the chat handler
ToDictsReversed(ms) ==
    [i \in 1..Len(ms) |->
        [role |-> ms[Len(ms) + 1 - i].role,
         content |-> ms[Len(ms) + 1 - i].content]]

\* messages = [{"role": m.role, "content": m.content} for m in request.messages]
ToDicts(ms) ==
    [i \in 1..Len(ms) |-> [role |-> ms[i].role, content |-> ms[i].content]]

MessagesOfShared(r) ==
    ToDicts(request[CHOOSE q \in Reqs : pc[q] = "queued"].messages)

\* The list invocation r builds from its own request parameter.
MessagesOf(r) == ToDicts(request[r].messages)

CreateParamsScaled(ms) ==
    [model |-> MODEL, max_tokens |-> MAX_TOKENS * Len(ms), messages |-> ms]

\* client.messages.create(model=..., max_tokens=1024, messages=messages)
CreateParams(ms) ==
    [model |-> MODEL, max_tokens |-> MAX_TOKENS, messages |-> ms]

ExtractTextLast(content) == content[Len(content)].text

\* response.content[0].text
ExtractText(content) == content[1].text

\* The event loop is free: no coroutine is inside the blocking create().
LoopFree == \A q \in Reqs : pc[q] # "calling"

\* A request arrives; FastAPI validates the body before `chat` is invoked.
Submit(r, b) ==
    /\ pc[r] = "idle"
    /\ body' = [body EXCEPT ![r] = b]
    /\ IF ValidChatRequests(b)
       THEN /\ pc' = [pc EXCEPT ![r] = "queued"]
            /\ request' = [request EXCEPT ![r] = ParseChatRequests(b)]
            /\ result' = result
       ELSE /\ pc' = [pc EXCEPT ![r] = "rejected"]
            /\ request' = request
            /\ result' = [result EXCEPT ![r] = Err("ValidationError")]
    /\ UNCHANGED << calls, reply, client, uiVars >>

\* The event loop runs `chat` for r up to the create() call.
Start(r) ==
    /\ pc[r] = "queued"
    /\ LoopFree
    /\ calls' = [calls EXCEPT ![r] = Append(@, CreateParams(MessagesOf(r)))]
    /\ pc' = [pc EXCEPT ![r] = "calling"]
    /\ UNCHANGED << body, request, reply, result, client, uiVars >>

\* create() returns; `chat` indexes the first content block and returns.
ProviderReturns(r, content) ==
    /\ pc[r] = "calling"
    /\ content \in ProviderReplies(calls[r][Len(calls[r])].messages)
    /\ reply' = [reply EXCEPT ![r] = [status |-> "ok", content |-> content]]
    /\ IF Len(content) = 0
       THEN /\ result' = [result EXCEPT ![r] = Err("IndexError")]
            /\ pc' = [pc EXCEPT ![r] = "error"]
       ELSE /\ result' = [result EXCEPT ![r] = Ok(ExtractText(content))]
            /\ pc' = [pc EXCEPT ![r] = "done"]
    /\ UNCHANGED << body, request, calls, client, uiVars >>

ProviderRaisesRetry(r) ==
    /\ pc[r] = "calling"
    /\ reply' = [reply EXCEPT ![r] = [status |-> "raised", content |-> <<>>]]
    /\ IF Len(calls[r]) < 2
       THEN /\ calls' = [calls EXCEPT ![r] = Append(@, calls[r][1])]
            /\ UNCHANGED << pc, result >>
       ELSE /\ result' = [result EXCEPT ![r] = Err("ProviderError")]
            /\ pc' = [pc EXCEPT ![r] = "error"]
            /\ calls' = calls
    /\ UNCHANGED << body, request, client, uiVars >>

\* create() raises; nothing in `chat` catches it.
ProviderRaises(r) ==
    /\ pc[r] = "calling"
    /\ reply' = [reply EXCEPT ![r] = [status |-> "raised", content |-> <<>>]]
    /\ result' = [result EXCEPT ![r] = Err("ProviderError")]
    /\ pc' = [pc EXCEPT ![r] = "error"]
    /\ UNCHANGED << body, request, calls, client, uiVars >>

\* Every content list the provider may return for some accepted request.
Replies ==
    UNION { ProviderReplies(ParseChatRequests(b).messages) :
                b \in { x \in Bodies : ValidChatRequests(x) } }

Next ==
    \/ \E r \in Reqs, b \in Bodies : Submit(r, b)
    \/ \E r \in Reqs : Start(r)
    \/ \E r \in Reqs, c \in Replies : ProviderReturns(r, c)
    \/ \E r \in Reqs : ProviderRaises(r)

Spec == Init /\ [][Next]_vars

\* ------------------------------------------------------------ the chat UI
Prompts == { "ping", "pong" }

Turn(role, content) == [role |-> role, content |-> content]

\* A prompt is entered: the script appends the user turn and calls create()
\* with st.session_state.messages.
UISubmit(p) ==
    /\ uiPc = "idle"
    /\ nPrompts < MaxPrompts
    /\ nPrompts' = nPrompts + 1
    /\ session' = Append(session, Turn("user", p))
    /\ uiSent' = << session' >>
    /\ uiError' = ""
    /\ uiPc' = "calling"
    /\ UNCHANGED apiVars

\* create() returns: the script indexes the first block and appends the
\* assistant turn; with no block the index raises and the run ends.
UIProviderReturns(content) ==
    /\ uiPc = "calling"
    /\ content \in ProviderReplies(uiSent[1])
    /\ IF Len(content) = 0
       THEN /\ uiError' = "IndexError"
            /\ session' = session
       ELSE /\ uiError' = ""
            /\ session' = Append(session, Turn("assistant", ExtractText(content)))
    /\ uiPc' = "idle"
    /\ UNCHANGED << uiSent, nPrompts, apiVars >>

\* create() raises: the script run ends there, session_state is kept.
UIProviderRaises ==
    /\ uiPc = "calling"
    /\ uiError' = "ProviderError"
    /\ uiPc' = "idle"
    /\ UNCHANGED << session, uiSent, nPrompts, apiVars >>

UIReplies ==
    { <<>>, << TextBlock("Hi there!") >> }
        \cup { << TextBlock(p), TextBlock("Hi there!") >> : p \in Prompts }

NextUI ==
    \/ \E p \in Prompts : UISubmit(p)
    \/ \E c \in UIReplies : UIProviderReturns(c)
    \/ UIProviderRaises

SpecUI == Init /\ [][NextUI]_vars

\* ------------------------------------------------------------- properties
\* The message list a request's own body stands for.
OwnMessages(r) == ParseChatRequests(body[r]).messages

Finished(r) == pc[r] \in { "done", "error" }

\* C1: the message list handed to create() is the request's list, entry by
\* entry: same length, the i-th entry has the role and the content of the
\* i-th posted turn and no other key.
C1_ForwardedInOrder ==
    \A r \in Reqs : \A k \in 1..Len(calls[r]) :
        LET ms == calls[r][k].messages IN
        /\ Len(ms) = Len(body[r])
        /\ \A i \in 1..Len(ms) :
            /\ DOMAIN ms[i] = { "role", "content" }
            /\ ms[i].role = body[r][i].role.val
            /\ ms[i].content = body[r][i].content.val

C1_Witness ==
    \E r \in Reqs :
        /\ Len(calls[r]) = 1
        /\ Len(body[r]) = 2
        /\ body[r][1] # body[r][2]

\* C2: when create() returns at least one content block the endpoint returns
\* {"response": t} with t the text of the first block; with an echoing
\* provider a single-turn request with content c gets the reply c.
C2_FirstBlockVerbatim ==
    \A r \in Reqs :
        (reply[r].status = "ok" /\ Len(reply[r].content) >= 1) =>
            /\ pc[r] = "done"
            /\ result[r].outcome = "ok"
            /\ result[r].response = reply[r].content[1].text
            /\ (Len(body[r]) = 1
                    /\ reply[r].content = EchoReply(calls[r][1].messages))
                => result[r].response = body[r][1].content.val

C2_Witness ==
    \E r \in Reqs :
        /\ pc[r] = "done"
        /\ Len(body[r]) = 1
        /\ Len(reply[r].content) = 2
        /\ reply[r].content[1].text # reply[r].content[2].text
        /\ reply[r].content = EchoReply(calls[r][1].messages)
        /\ result[r].response = "ping"

\* C3: a successful create() with no content block ends the relay in the
\* distinct error MalformedProviderResponse.
C3_EmptyReplyIsMalformedResponse ==
    \A r \in Reqs :
        (reply[r].status = "ok" /\ Len(reply[r].content) = 0) =>
            /\ pc[r] = "error"
            /\ result[r].error = "MalformedProviderResponse"

\* C4: when create() fails the invocation ends in a failure handed to the
\* caller, with no reply, having called the provider once.
C4_FailureOnceNoRetry ==
    \A r \in Reqs :
        reply[r].status = "raised" =>
            /\ pc[r] = "error"
            /\ result[r].outcome = "error"
            /\ result[r].response = ""
            /\ Len(calls[r]) = 1

C4_Witness ==
    \E r \in Reqs : reply[r].status = "raised" /\ pc[r] = "error"

\* C5: with several requests outstanding and finishing in any order, each
\* invocation forwards only the turns of its own request, and one that
\* completes returns the first block of the reply the provider produced for
\* its own message list.
C5_NoCrossRequestBleed ==
    \A r \in Reqs :
        /\ \A k \in 1..Len(calls[r]) : calls[r][k].messages = OwnMessages(r)
        /\ pc[r] = "done" =>
            /\ reply[r].content \in ProviderReplies(OwnMessages(r))
            /\ result[r].response = reply[r].content[1].text

C5_Witness ==
    \E r, s \in Reqs :
        /\ r # s
        /\ pc[r] = "done" /\ pc[s] = "done"
        /\ body[r] # body[s]
        /\ Len(body[r]) > 0 /\ Len(body[s]) > 0
        /\ reply[r].content = EchoReply(OwnMessages(r))
        /\ reply[s].content = EchoReply(OwnMessages(s))
        /\ result[r].response # result[s].response

\* C6: every turn that reaches the provider has the role user or assistant;
\* a request with a turn of another role is rejected and never forwarded.
C6_OnlyKnownRolesForwarded ==
    \A r \in Reqs :
        /\ \A k \in 1..Len(calls[r]) :
            \A i \in 1..Len(calls[r][k].messages) :
                calls[r][k].messages[i].role \in { "user", "assistant" }
        /\ (pc[r] # "idle"
                /\ \E i \in 1..Len(body[r]) :
                    body[r][i].role \notin { JStr("user"), JStr("assistant") })
            => (pc[r] = "rejected" /\ calls[r] = <<>>)

\* C7: a request with an empty messages list is accepted and forwarded as an
\* empty list; its outcome is the provider's: the provider's failure, or the
\* first block of what the provider returned.
C7_EmptyListForwarded ==
    \A r \in Reqs :
        (pc[r] # "idle" /\ body[r] = <<>>) =>
            /\ pc[r] # "rejected"
            /\ \A k \in 1..Len(calls[r]) : calls[r][k].messages = <<>>
            /\ Finished(r) => Len(calls[r]) = 1
            /\ reply[r].status = "raised" => result[r].outcome = "error"
            /\ (reply[r].status = "ok" /\ Len(reply[r].content) >= 1)
                => result[r] = Ok(reply[r].content[1].text)

C7_Witness ==
    \E r \in Reqs :
        /\ pc[r] = "done"
        /\ body[r] = <<>>
        /\ Len(calls[r]) = 1
        /\ calls[r][1].messages = <<>>

\* C8: an invocation issues one create() call, on the success path and on
\* the failure paths, always with the same model and max_tokens = 1024, and
\* the module-level client is as it was constructed.
C8_OneCallFixedParams ==
    /\ client = InitialClient
    /\ \A r \in Reqs :
        /\ pc[r] \in { "idle", "rejected", "queued" } => Len(calls[r]) = 0
        /\ pc[r] \in { "calling", "done", "error" } => Len(calls[r]) = 1
        /\ \A k \in 1..Len(calls[r]) :
            /\ calls[r][k].model = "claude-sonnet-4-20250514"
            /\ calls[r][k].max_tokens = 1024

C8_Witness ==
    \E r, s \in Reqs :
        /\ pc[r] = "done" /\ Len(calls[r]) = 1
        /\ pc[s] = "error" /\ Len(calls[s]) = 1
        /\ Len(calls[r][1].messages) # Len(calls[s][1].messages)

\* C9: while one invocation waits for its create() to return, the server can
\* start another accepted request's invocation and issue its create().
C9_NoSerialization ==
    \A r, s \in Reqs :
        (r # s /\ pc[r] = "calling" /\ pc[s] = "queued") => ENABLED Start(s)

\* C10: every message list the chat page sends alternates user, assistant,
\* user, ... from a user turn to a user turn, and between submissions the
\* history has even length, each user turn followed by its assistant reply.
Alternates(ms) ==
    \A i \in 1..Len(ms) :
        ms[i].role = IF i % 2 = 1 THEN "user" ELSE "assistant"

C10_HistoryAlternates ==
    /\ \A k \in 1..Len(uiSent) :
        Alternates(uiSent[k]) /\ Len(uiSent[k]) % 2 = 1
    /\ uiPc = "idle" => (Alternates(session) /\ Len(session) % 2 = 0)

====
